---- MODULE Spec2Model ----
(***************************************************************************)
(* Model of scenario1/qase_copy_results_v4.py: the paginated reader        *)
(* (paginate), the identifier mapper (extract_custom_field_value,          *)
(* build_mapping), the status translator (convert_status) and the          *)
(* migration engine (copy_results), run against a remote store whose       *)
(* answers are chosen by the environment at every request.                 *)
(*                                                                         *)
(* Python values are tagged records [t, n, s]: None, an int, or a str held *)
(* as a sequence of one-character strings, so that str(), strip() and      *)
(* lower() are computed character by character.                            *)
(***************************************************************************)
EXTENDS Integers, Sequences, FiniteSets, TLC

VARIABLES
    entry,        \* the function the run was started with
    store,        \* what the remote store serves on the collection endpoint
    pc,           \* position of the program
    url,          \* endpoint of the request in progress / last issued
    page,         \* paginate: page
    items,        \* paginate: items
    resp,         \* paginate: resp of the last page request
    gets,         \* every GET issued so far, in order
    cases,        \* build_mapping: cases
    mapping_a,    \* build_mapping: mapping / copy_results: mapping_a
    all_results,  \* copy_results: all_results
    results_b,    \* copy_results: results_b
    summary,      \* copy_results: summary
    i,            \* copy_results: position of res in results_b
    case_b,       \* copy_results: case_b
    payload,      \* copy_results: payload
    posts,        \* every POST issued so far, in order, with its outcome
    emitted,      \* summaries written to summary.json / logged
    s,            \* convert_status: s
    status_code   \* convert_status: returned value

vars == <<entry, store, pc, url, page, items, resp, gets, cases, mapping_a,
          all_results, results_b, summary, i, case_b, payload, posts,
          emitted, s, status_code>>

-----------------------------------------------------------------------------
(* Bounds of the model *)

MaxItems == 250        \* largest collection served by the well-behaved store
MaxFreePages == 2      \* page requests answered by the unconstrained store
MaxKeysPresent == 2    \* container keys present in one unconstrained envelope
ShortLen == 2          \* length of a short (non-empty, < 100) page
MaxCases == 2          \* cases of project A in a build_mapping run
MaxCasesA == 2         \* cases of project A in a copy_results run
MaxResults == 2        \* results of project B in a copy_results run
MaxFullPages == 1      \* full pages of project B's results before the last page
MaxRuns == 2           \* invocations of the command line against one remote

(* Program constants *)

MAPPING_FIELD_ID == 1  \* line 24
RequestLimit == 100    \* line 66, params limit
FullPage == 100        \* line 79, len(entities) < 100

-----------------------------------------------------------------------------
(* Python values *)

None == [t |-> "none", n |-> 0, s |-> <<>>]
IntV(k) == [t |-> "int", n |-> k, s |-> <<>>]
StrV(cs) == [t |-> "str", n |-> 0, s |-> cs]

\* A str is the sequence of its Unicode code points. The tables below are
\* those of the interpreter the program runs on (CPython 3.11, Unicode 14.0).

\* the printable ASCII characters but the grave accent: from code point 32
\* (space) to 95 (_), and from 97 (a) to 126 (~)
AsciiFrom32 ==
    <<" ", "!", "\"", "#", "$", "%", "&", "'", "(", ")", "*", "+", ",",
      "-", ".", "/", "0", "1", "2", "3", "4", "5", "6", "7", "8", "9",
      ":", ";", "<", "=", ">", "?", "@", "A", "B", "C", "D", "E", "F",
      "G", "H", "I", "J", "K", "L", "M", "N", "O", "P", "Q", "R", "S",
      "T", "U", "V", "W", "X", "Y", "Z", "[", "\\", "]", "^", "_">>

AsciiFrom97 ==
    <<"a", "b", "c", "d", "e", "f", "g", "h", "i", "j", "k", "l", "m",
      "n", "o", "p", "q", "r", "s", "t", "u", "v", "w", "x", "y", "z",
      "{", "|", "}", "~">>

\* ord(c) of one of these characters
Ord(c) ==
    IF \E k \in 1..Len(AsciiFrom32) : AsciiFrom32[k] = c
    THEN 31 + CHOOSE k \in 1..Len(AsciiFrom32) : AsciiFrom32[k] = c
    ELSE 96 + CHOOSE k \in 1..Len(AsciiFrom97) : AsciiFrom97[k] = c

\* a str literal of the source, written as its characters
Text(cs) == [k \in 1..Len(cs) |-> Ord(cs[k])]

\* str.isspace(): the characters str.strip() removes. ASCII tab, line feed,
\* vertical tab, form feed, carriage return, the separators 28-31 and space;
\* then next line, no-break space and the Unicode space separators
Whitespace ==
    (9..13) \cup (28..32) \cup {133, 160, 5760} \cup (8192..8202)
    \cup {8232, 8233, 8239, 8287, 12288}

\* the characters above ASCII that str.lower() maps to one other character:
\* <<first, last, step, offset>> maps first, first + step, ..., last to
\* themselves plus offset
LowerRanges ==
    { <<192,214,1,32>>, <<216,222,1,32>>, <<256,302,2,1>>,
      <<306,310,2,1>>, <<313,327,2,1>>, <<330,374,2,1>>,
      <<376,376,1,-121>>, <<377,381,2,1>>, <<385,385,1,210>>,
      <<386,388,2,1>>, <<390,390,1,206>>, <<391,391,1,1>>,
      <<393,394,1,205>>, <<395,395,1,1>>, <<398,398,1,79>>,
      <<399,399,1,202>>, <<400,400,1,203>>, <<401,401,1,1>>,
      <<403,403,1,205>>, <<404,404,1,207>>, <<406,406,1,211>>,
      <<407,407,1,209>>, <<408,408,1,1>>, <<412,412,1,211>>,
      <<413,413,1,213>>, <<415,415,1,214>>, <<416,420,2,1>>,
      <<422,422,1,218>>, <<423,423,1,1>>, <<425,425,1,218>>,
      <<428,428,1,1>>, <<430,430,1,218>>, <<431,431,1,1>>,
      <<433,434,1,217>>, <<435,437,2,1>>, <<439,439,1,219>>,
      <<440,440,1,1>>, <<444,444,1,1>>, <<452,452,1,2>>, <<453,453,1,1>>,
      <<455,455,1,2>>, <<456,456,1,1>>, <<458,458,1,2>>, <<459,475,2,1>>,
      <<478,494,2,1>>, <<497,497,1,2>>, <<498,500,2,1>>,
      <<502,502,1,-97>>, <<503,503,1,-56>>, <<504,542,2,1>>,
      <<544,544,1,-130>>, <<546,562,2,1>>, <<570,570,1,10795>>,
      <<571,571,1,1>>, <<573,573,1,-163>>, <<574,574,1,10792>>,
      <<577,577,1,1>>, <<579,579,1,-195>>, <<580,580,1,69>>,
      <<581,581,1,71>>, <<582,590,2,1>>, <<880,882,2,1>>, <<886,886,1,1>>,
      <<895,895,1,116>>, <<902,902,1,38>>, <<904,906,1,37>>,
      <<908,908,1,64>>, <<910,911,1,63>>, <<913,929,1,32>>,
      <<931,939,1,32>>, <<975,975,1,8>>, <<984,1006,2,1>>,
      <<1012,1012,1,-60>>, <<1015,1015,1,1>>, <<1017,1017,1,-7>>,
      <<1018,1018,1,1>>, <<1021,1023,1,-130>>, <<1024,1039,1,80>>,
      <<1040,1071,1,32>>, <<1120,1152,2,1>>, <<1162,1214,2,1>>,
      <<1216,1216,1,15>>, <<1217,1229,2,1>>, <<1232,1326,2,1>>,
      <<1329,1366,1,48>>, <<4256,4293,1,7264>>, <<4295,4295,1,7264>>,
      <<4301,4301,1,7264>>, <<5024,5103,1,38864>>, <<5104,5109,1,8>>,
      <<7312,7354,1,-3008>>, <<7357,7359,1,-3008>>, <<7680,7828,2,1>>,
      <<7838,7838,1,-7615>>, <<7840,7934,2,1>>, <<7944,7951,1,-8>>,
      <<7960,7965,1,-8>>, <<7976,7983,1,-8>>, <<7992,7999,1,-8>>,
      <<8008,8013,1,-8>>, <<8025,8031,2,-8>>, <<8040,8047,1,-8>>,
      <<8072,8079,1,-8>>, <<8088,8095,1,-8>>, <<8104,8111,1,-8>>,
      <<8120,8121,1,-8>>, <<8122,8123,1,-74>>, <<8124,8124,1,-9>>,
      <<8136,8139,1,-86>>, <<8140,8140,1,-9>>, <<8152,8153,1,-8>>,
      <<8154,8155,1,-100>>, <<8168,8169,1,-8>>, <<8170,8171,1,-112>>,
      <<8172,8172,1,-7>>, <<8184,8185,1,-128>>, <<8186,8187,1,-126>>,
      <<8188,8188,1,-9>>, <<8486,8486,1,-7517>>, <<8490,8490,1,-8383>>,
      <<8491,8491,1,-8262>>, <<8498,8498,1,28>>, <<8544,8559,1,16>>,
      <<8579,8579,1,1>>, <<9398,9423,1,26>>, <<11264,11311,1,48>>,
      <<11360,11360,1,1>>, <<11362,11362,1,-10743>>,
      <<11363,11363,1,-3814>>, <<11364,11364,1,-10727>>,
      <<11367,11371,2,1>>, <<11373,11373,1,-10780>>,
      <<11374,11374,1,-10749>>, <<11375,11375,1,-10783>>,
      <<11376,11376,1,-10782>>, <<11378,11378,1,1>>, <<11381,11381,1,1>>,
      <<11390,11391,1,-10815>>, <<11392,11490,2,1>>, <<11499,11501,2,1>>,
      <<11506,11506,1,1>>, <<42560,42604,2,1>>, <<42624,42650,2,1>>,
      <<42786,42798,2,1>>, <<42802,42862,2,1>>, <<42873,42875,2,1>>,
      <<42877,42877,1,-35332>>, <<42878,42886,2,1>>, <<42891,42891,1,1>>,
      <<42893,42893,1,-42280>>, <<42896,42898,2,1>>, <<42902,42920,2,1>>,
      <<42922,42922,1,-42308>>, <<42923,42923,1,-42319>>,
      <<42924,42924,1,-42315>>, <<42925,42925,1,-42305>>,
      <<42926,42926,1,-42308>>, <<42928,42928,1,-42258>>,
      <<42929,42929,1,-42282>>, <<42930,42930,1,-42261>>,
      <<42931,42931,1,928>>, <<42932,42946,2,1>>, <<42948,42948,1,-48>>,
      <<42949,42949,1,-42307>>, <<42950,42950,1,-35384>>,
      <<42951,42953,2,1>>, <<42960,42960,1,1>>, <<42966,42968,2,1>>,
      <<42997,42997,1,1>>, <<65313,65338,1,32>>, <<66560,66599,1,40>>,
      <<66736,66771,1,40>>, <<66928,66938,1,39>>, <<66940,66954,1,39>>,
      <<66956,66962,1,39>>, <<66964,66965,1,39>>, <<68736,68786,1,64>>,
      <<71840,71871,1,32>>, <<93760,93791,1,32>>, <<125184,125217,1,34>> }

\* case-ignorable characters: the ones the final-sigma rule looks through
CaseIgnorableRanges ==
    { <<39,39>>, <<46,46>>, <<58,58>>, <<94,94>>, <<96,96>>, <<168,168>>,
      <<173,173>>, <<175,175>>, <<180,180>>, <<183,184>>, <<688,879>>,
      <<884,885>>, <<890,890>>, <<900,901>>, <<903,903>>, <<1155,1161>>,
      <<1369,1369>>, <<1375,1375>>, <<1425,1469>>, <<1471,1471>>,
      <<1473,1474>>, <<1476,1477>>, <<1479,1479>>, <<1524,1524>>,
      <<1536,1541>>, <<1552,1562>>, <<1564,1564>>, <<1600,1600>>,
      <<1611,1631>>, <<1648,1648>>, <<1750,1757>>, <<1759,1768>>,
      <<1770,1773>>, <<1807,1807>>, <<1809,1809>>, <<1840,1866>>,
      <<1958,1968>>, <<2027,2037>>, <<2042,2042>>, <<2045,2045>>,
      <<2070,2093>>, <<2137,2139>>, <<2184,2184>>, <<2192,2193>>,
      <<2200,2207>>, <<2249,2306>>, <<2362,2362>>, <<2364,2364>>,
      <<2369,2376>>, <<2381,2381>>, <<2385,2391>>, <<2402,2403>>,
      <<2417,2417>>, <<2433,2433>>, <<2492,2492>>, <<2497,2500>>,
      <<2509,2509>>, <<2530,2531>>, <<2558,2558>>, <<2561,2562>>,
      <<2620,2620>>, <<2625,2626>>, <<2631,2632>>, <<2635,2637>>,
      <<2641,2641>>, <<2672,2673>>, <<2677,2677>>, <<2689,2690>>,
      <<2748,2748>>, <<2753,2757>>, <<2759,2760>>, <<2765,2765>>,
      <<2786,2787>>, <<2810,2815>>, <<2817,2817>>, <<2876,2876>>,
      <<2879,2879>>, <<2881,2884>>, <<2893,2893>>, <<2901,2902>>,
      <<2914,2915>>, <<2946,2946>>, <<3008,3008>>, <<3021,3021>>,
      <<3072,3072>>, <<3076,3076>>, <<3132,3132>>, <<3134,3136>>,
      <<3142,3144>>, <<3146,3149>>, <<3157,3158>>, <<3170,3171>>,
      <<3201,3201>>, <<3260,3260>>, <<3263,3263>>, <<3270,3270>>,
      <<3276,3277>>, <<3298,3299>>, <<3328,3329>>, <<3387,3388>>,
      <<3393,3396>>, <<3405,3405>>, <<3426,3427>>, <<3457,3457>>,
      <<3530,3530>>, <<3538,3540>>, <<3542,3542>>, <<3633,3633>>,
      <<3636,3642>>, <<3654,3662>>, <<3761,3761>>, <<3764,3772>>,
      <<3782,3782>>, <<3784,3789>>, <<3864,3865>>, <<3893,3893>>,
      <<3895,3895>>, <<3897,3897>>, <<3953,3966>>, <<3968,3972>>,
      <<3974,3975>>, <<3981,3991>>, <<3993,4028>>, <<4038,4038>>,
      <<4141,4144>>, <<4146,4151>>, <<4153,4154>>, <<4157,4158>>,
      <<4184,4185>>, <<4190,4192>>, <<4209,4212>>, <<4226,4226>>,
      <<4229,4230>>, <<4237,4237>>, <<4253,4253>>, <<4348,4348>>,
      <<4957,4959>>, <<5906,5908>>, <<5938,5939>>, <<5970,5971>>,
      <<6002,6003>>, <<6068,6069>>, <<6071,6077>>, <<6086,6086>>,
      <<6089,6099>>, <<6103,6103>>, <<6109,6109>>, <<6155,6159>>,
      <<6211,6211>>, <<6277,6278>>, <<6313,6313>>, <<6432,6434>>,
      <<6439,6440>>, <<6450,6450>>, <<6457,6459>>, <<6679,6680>>,
      <<6683,6683>>, <<6742,6742>>, <<6744,6750>>, <<6752,6752>>,
      <<6754,6754>>, <<6757,6764>>, <<6771,6780>>, <<6783,6783>>,
      <<6823,6823>>, <<6832,6862>>, <<6912,6915>>, <<6964,6964>>,
      <<6966,6970>>, <<6972,6972>>, <<6978,6978>>, <<7019,7027>>,
      <<7040,7041>>, <<7074,7077>>, <<7080,7081>>, <<7083,7085>>,
      <<7142,7142>>, <<7144,7145>>, <<7149,7149>>, <<7151,7153>>,
      <<7212,7219>>, <<7222,7223>>, <<7288,7293>>, <<7376,7378>>,
      <<7380,7392>>, <<7394,7400>>, <<7405,7405>>, <<7412,7412>>,
      <<7416,7417>>, <<7468,7530>>, <<7544,7544>>, <<7579,7679>>,
      <<8125,8125>>, <<8127,8129>>, <<8141,8143>>, <<8157,8159>>,
      <<8173,8175>>, <<8189,8190>>, <<8203,8207>>, <<8216,8217>>,
      <<8228,8228>>, <<8231,8231>>, <<8234,8238>>, <<8288,8292>>,
      <<8294,8303>>, <<8305,8305>>, <<8319,8319>>, <<8336,8348>>,
      <<8400,8432>>, <<11388,11389>>, <<11503,11505>>, <<11631,11631>>,
      <<11647,11647>>, <<11744,11775>>, <<11823,11823>>, <<12293,12293>>,
      <<12330,12333>>, <<12337,12341>>, <<12347,12347>>, <<12441,12446>>,
      <<12540,12542>>, <<40981,40981>>, <<42232,42237>>, <<42508,42508>>,
      <<42607,42610>>, <<42612,42621>>, <<42623,42623>>, <<42652,42655>>,
      <<42736,42737>>, <<42752,42785>>, <<42864,42864>>, <<42888,42890>>,
      <<42994,42996>>, <<43000,43001>>, <<43010,43010>>, <<43014,43014>>,
      <<43019,43019>>, <<43045,43046>>, <<43052,43052>>, <<43204,43205>>,
      <<43232,43249>>, <<43263,43263>>, <<43302,43309>>, <<43335,43345>>,
      <<43392,43394>>, <<43443,43443>>, <<43446,43449>>, <<43452,43453>>,
      <<43471,43471>>, <<43493,43494>>, <<43561,43566>>, <<43569,43570>>,
      <<43573,43574>>, <<43587,43587>>, <<43596,43596>>, <<43632,43632>>,
      <<43644,43644>>, <<43696,43696>>, <<43698,43700>>, <<43703,43704>>,
      <<43710,43711>>, <<43713,43713>>, <<43741,43741>>, <<43756,43757>>,
      <<43763,43764>>, <<43766,43766>>, <<43867,43871>>, <<43881,43883>>,
      <<44005,44005>>, <<44008,44008>>, <<44013,44013>>, <<64286,64286>>,
      <<64434,64450>>, <<65024,65039>>, <<65043,65043>>, <<65056,65071>>,
      <<65106,65106>>, <<65109,65109>>, <<65279,65279>>, <<65287,65287>>,
      <<65294,65294>>, <<65306,65306>>, <<65342,65342>>, <<65344,65344>>,
      <<65392,65392>>, <<65438,65439>>, <<65507,65507>>, <<65529,65531>>,
      <<66045,66045>>, <<66272,66272>>, <<66422,66426>>, <<67456,67461>>,
      <<67463,67504>>, <<67506,67514>>, <<68097,68099>>, <<68101,68102>>,
      <<68108,68111>>, <<68152,68154>>, <<68159,68159>>, <<68325,68326>>,
      <<68900,68903>>, <<69291,69292>>, <<69446,69456>>, <<69506,69509>>,
      <<69633,69633>>, <<69688,69702>>, <<69744,69744>>, <<69747,69748>>,
      <<69759,69761>>, <<69811,69814>>, <<69817,69818>>, <<69821,69821>>,
      <<69826,69826>>, <<69837,69837>>, <<69888,69890>>, <<69927,69931>>,
      <<69933,69940>>, <<70003,70003>>, <<70016,70017>>, <<70070,70078>>,
      <<70089,70092>>, <<70095,70095>>, <<70191,70193>>, <<70196,70196>>,
      <<70198,70199>>, <<70206,70206>>, <<70367,70367>>, <<70371,70378>>,
      <<70400,70401>>, <<70459,70460>>, <<70464,70464>>, <<70502,70508>>,
      <<70512,70516>>, <<70712,70719>>, <<70722,70724>>, <<70726,70726>>,
      <<70750,70750>>, <<70835,70840>>, <<70842,70842>>, <<70847,70848>>,
      <<70850,70851>>, <<71090,71093>>, <<71100,71101>>, <<71103,71104>>,
      <<71132,71133>>, <<71219,71226>>, <<71229,71229>>, <<71231,71232>>,
      <<71339,71339>>, <<71341,71341>>, <<71344,71349>>, <<71351,71351>>,
      <<71453,71455>>, <<71458,71461>>, <<71463,71467>>, <<71727,71735>>,
      <<71737,71738>>, <<71995,71996>>, <<71998,71998>>, <<72003,72003>>,
      <<72148,72151>>, <<72154,72155>>, <<72160,72160>>, <<72193,72202>>,
      <<72243,72248>>, <<72251,72254>>, <<72263,72263>>, <<72273,72278>>,
      <<72281,72283>>, <<72330,72342>>, <<72344,72345>>, <<72752,72758>>,
      <<72760,72765>>, <<72767,72767>>, <<72850,72871>>, <<72874,72880>>,
      <<72882,72883>>, <<72885,72886>>, <<73009,73014>>, <<73018,73018>>,
      <<73020,73021>>, <<73023,73029>>, <<73031,73031>>, <<73104,73105>>,
      <<73109,73109>>, <<73111,73111>>, <<73459,73460>>, <<78896,78904>>,
      <<92912,92916>>, <<92976,92982>>, <<92992,92995>>, <<94031,94031>>,
      <<94095,94111>>, <<94176,94177>>, <<94179,94180>>,
      <<110576,110579>>, <<110581,110587>>, <<110589,110590>>,
      <<113821,113822>>, <<113824,113827>>, <<118528,118573>>,
      <<118576,118598>>, <<119143,119145>>, <<119155,119170>>,
      <<119173,119179>>, <<119210,119213>>, <<119362,119364>>,
      <<121344,121398>>, <<121403,121452>>, <<121461,121461>>,
      <<121476,121476>>, <<121499,121503>>, <<121505,121519>>,
      <<122880,122886>>, <<122888,122904>>, <<122907,122913>>,
      <<122915,122916>>, <<122918,122922>>, <<123184,123197>>,
      <<123566,123566>>, <<123628,123631>>, <<125136,125142>>,
      <<125252,125259>>, <<127995,127999>>, <<917505,917505>>,
      <<917536,917631>>, <<917760,917999>> }

\* cased characters that are not case-ignorable
CasedRanges ==
    { <<65,90>>, <<97,122>>, <<170,170>>, <<181,181>>, <<186,186>>,
      <<192,214>>, <<216,246>>, <<248,442>>, <<444,447>>, <<452,659>>,
      <<661,687>>, <<880,883>>, <<886,887>>, <<891,893>>, <<895,895>>,
      <<902,902>>, <<904,906>>, <<908,908>>, <<910,929>>, <<931,1013>>,
      <<1015,1153>>, <<1162,1327>>, <<1329,1366>>, <<1376,1416>>,
      <<4256,4293>>, <<4295,4295>>, <<4301,4301>>, <<4304,4346>>,
      <<4349,4351>>, <<5024,5109>>, <<5112,5117>>, <<7296,7304>>,
      <<7312,7354>>, <<7357,7359>>, <<7424,7467>>, <<7531,7543>>,
      <<7545,7578>>, <<7680,7957>>, <<7960,7965>>, <<7968,8005>>,
      <<8008,8013>>, <<8016,8023>>, <<8025,8025>>, <<8027,8027>>,
      <<8029,8029>>, <<8031,8061>>, <<8064,8116>>, <<8118,8124>>,
      <<8126,8126>>, <<8130,8132>>, <<8134,8140>>, <<8144,8147>>,
      <<8150,8155>>, <<8160,8172>>, <<8178,8180>>, <<8182,8188>>,
      <<8450,8450>>, <<8455,8455>>, <<8458,8467>>, <<8469,8469>>,
      <<8473,8477>>, <<8484,8484>>, <<8486,8486>>, <<8488,8488>>,
      <<8490,8493>>, <<8495,8500>>, <<8505,8505>>, <<8508,8511>>,
      <<8517,8521>>, <<8526,8526>>, <<8544,8575>>, <<8579,8580>>,
      <<9398,9449>>, <<11264,11387>>, <<11390,11492>>, <<11499,11502>>,
      <<11506,11507>>, <<11520,11557>>, <<11559,11559>>, <<11565,11565>>,
      <<42560,42605>>, <<42624,42651>>, <<42786,42863>>, <<42865,42887>>,
      <<42891,42894>>, <<42896,42954>>, <<42960,42961>>, <<42963,42963>>,
      <<42965,42969>>, <<42997,42998>>, <<43002,43002>>, <<43824,43866>>,
      <<43872,43880>>, <<43888,43967>>, <<64256,64262>>, <<64275,64279>>,
      <<65313,65338>>, <<65345,65370>>, <<66560,66639>>, <<66736,66771>>,
      <<66776,66811>>, <<66928,66938>>, <<66940,66954>>, <<66956,66962>>,
      <<66964,66965>>, <<66967,66977>>, <<66979,66993>>, <<66995,67001>>,
      <<67003,67004>>, <<68736,68786>>, <<68800,68850>>, <<71840,71903>>,
      <<93760,93823>>, <<119808,119892>>, <<119894,119964>>,
      <<119966,119967>>, <<119970,119970>>, <<119973,119974>>,
      <<119977,119980>>, <<119982,119993>>, <<119995,119995>>,
      <<119997,120003>>, <<120005,120069>>, <<120071,120074>>,
      <<120077,120084>>, <<120086,120092>>, <<120094,120121>>,
      <<120123,120126>>, <<120128,120132>>, <<120134,120134>>,
      <<120138,120144>>, <<120146,120485>>, <<120488,120512>>,
      <<120514,120538>>, <<120540,120570>>, <<120572,120596>>,
      <<120598,120628>>, <<120630,120654>>, <<120656,120686>>,
      <<120688,120712>>, <<120714,120744>>, <<120746,120770>>,
      <<120772,120779>>, <<122624,122633>>, <<122635,122654>>,
      <<125184,125251>>, <<127280,127305>>, <<127312,127337>>,
      <<127344,127369>> }

CaseIgnorable(c) == \E r \in CaseIgnorableRanges : r[1] <= c /\ c <= r[2]

Cased(c) == \E r \in CasedRanges : r[1] <= c /\ c <= r[2]

\* str.lower() of the one-character string c: one character, but for
\* U+0130 (capital I with dot above), which gives i and a combining dot
LowerChar(c) ==
    IF c < 128 THEN (IF c \in 65..90 THEN <<c + 32>> ELSE <<c>>)
    ELSE IF c = 304 THEN <<105, 775>>
    ELSE IF \E r \in LowerRanges :
                r[1] <= c /\ c <= r[2] /\ (c - r[1]) % r[3] = 0
    THEN <<c + (CHOOSE r \in LowerRanges :
                  r[1] <= c /\ c <= r[2] /\ (c - r[1]) % r[3] = 0)[4]>>
    ELSE <<c>>

\* the capital sigma at position k ends a word: the nearest character
\* before it that is not case-ignorable is cased, and the nearest one after
\* it, if any, is not
FinalSigma(cs, k) ==
    LET before == { j \in 1..(k - 1) : ~CaseIgnorable(cs[j]) }
        after == { j \in (k + 1)..Len(cs) : ~CaseIgnorable(cs[j]) }
    IN /\ before # {}
       /\ Cased(cs[CHOOSE j \in before : \A j2 \in before : j2 <= j])
       /\ after # {}
            => ~Cased(cs[CHOOSE j \in after : \A j2 \in after : j <= j2])

RECURSIVE LowerFrom(_, _)
LowerFrom(cs, k) ==
    IF k > Len(cs) THEN <<>>
    ELSE (IF cs[k] = 931 /\ FinalSigma(cs, k) THEN <<962>>
          ELSE LowerChar(cs[k]))
         \o LowerFrom(cs, k + 1)

\* str.lower()
Lower(cs) == LowerFrom(cs, 1)

RECURSIVE NatStr(_)
\* decimal digits of a natural number
NatStr(k) ==
    IF k < 10 THEN <<48 + k>>
    ELSE NatStr(k \div 10) \o <<48 + (k % 10)>>

\* str(None)
NoneText == Text(<<"N","o","n","e">>)

\* str(v)
PyStr(v) ==
    CASE v.t = "str" -> v.s
      [] v.t = "none" -> NoneText
      [] v.t = "int" -> IF v.n < 0 THEN <<45>> \o NatStr(0 - v.n)
                        ELSE NatStr(v.n)

RECURSIVE LStrip(_)
LStrip(cs) ==
    IF cs # <<>> /\ Head(cs) \in Whitespace THEN LStrip(Tail(cs)) ELSE cs

RECURSIVE RStrip(_)
RStrip(cs) ==
    IF cs # <<>> /\ cs[Len(cs)] \in Whitespace
    THEN RStrip(SubSeq(cs, 1, Len(cs) - 1))
    ELSE cs

\* str.strip()
Strip(cs) == RStrip(LStrip(cs))

\* truth value of a str-or-None
Truthy(v) ==
    CASE v.t = "str" -> v.s # <<>>
      [] v.t = "none" -> FALSE
      [] v.t = "int" -> v.n # 0

-----------------------------------------------------------------------------
(* HTTP: api_get / api_post *)

\* api_get returns r.json() only for status 200, raises otherwise
GetSucceeds(code) == code = 200

\* api_post returns r.json() only for status 200 or 201, raises otherwise
PostSucceeds(code) == code \in {200, 201}

-----------------------------------------------------------------------------
(* paginate: the response envelope *)

Keys == <<"entities", "items", "results", "cases">>

\* the value found under one container key of resp["result"]
Absent == [present |-> FALSE, null |-> FALSE, list |-> <<>>]
Null == [present |-> TRUE, null |-> TRUE, list |-> <<>>]
List(l) == [present |-> TRUE, null |-> FALSE, list |-> l]

NoKeys == [k \in 1..4 |-> Absent]

\* the envelope holding list l under container key number k only
Envelope(k, l) == [j \in 1..4 |-> IF j = k THEN List(l) ELSE Absent]

\* lines 68-73 preferring the first key whose list has items
FirstKeyNonEmpty(result, k) ==
    LET full == { j \in k..4 : result[j].present /\ result[j].list # <<>> }
    IN IF full = {} THEN Null
       ELSE result[CHOOSE j \in full : \A j2 \in full : j <= j2]

RECURSIVE FirstKey(_, _)
\* lines 68-73: entities = result[key] for the first key in result, else None
FirstKey(result, k) ==
    IF k > 4 THEN Null
    ELSE IF result[k].present THEN result[k]
    ELSE FirstKey(result, k + 1)

ExtractEntities(result) == FirstKey(result, 1)

\* line 75: not entities (None or an empty list)
NoEntities(entities) == entities.null \/ entities.list = <<>>

\* line 79 with <= for <: a full page is taken for the last one
IsLastPageInclusive(entities) == Len(entities.list) <= FullPage

\* line 79 left out: only an empty page ends the read
IsLastPageOnlyEmpty(entities) == Len(entities.list) < 1

\* line 79
IsLastPage(entities) == Len(entities.list) < FullPage

-----------------------------------------------------------------------------
(* The call under study and the remote store *)

\* copy_results(project_a, run_a, project_b, run_b), lines 228-239
Args == [project_a |-> "A", run_a |-> 10, project_b |-> "B", run_b |-> 20]

\* get_all_cases / get_all_results / get_case / post_result endpoints
CasesUrl(project) == [ep |-> "case", project |-> project, id |-> 0]
ResultsUrl(project) == [ep |-> "result", project |-> project, id |-> 0]
CaseUrl(project, case_id) == [ep |-> "case", project |-> project, id |-> case_id]
PostUrl(project, run_id) == [ep |-> "result", project |-> project, id |-> run_id]

\* a response to a page GET: status code and the "result" object
PageOk(result) == [code |-> 200, result |-> result]
PageFail == [code |-> 500, result |-> NoKeys]

\* page number p (1-based) of a collection of n items served limit at a time;
\* the items are named by their position in server order
Slice(n, p) ==
    LET from == (p - 1) * RequestLimit
        len == IF n - from > RequestLimit THEN RequestLimit
               ELSE IF n - from < 0 THEN 0 ELSE n - from
    IN [j \in 1..len |-> from + j]

\* the lists an unconstrained store may put under key k of page p: labelled
\* by page and key so that the origin of every gathered item is visible
FreeLabel(p, k, j) == ((p - 1) * 4 + (k - 1)) * 1000 + j
FreeList(p, k, kind) ==
    CASE kind = "null" -> Null
      [] kind = "empty" -> List(<<>>)
      [] kind = "short" -> List([j \in 1..ShortLen |-> FreeLabel(p, k, j)])
      [] kind = "full" -> List([j \in 1..FullPage |-> FreeLabel(p, k, j)])

FreeEnvelopes(p) ==
    { [k \in 1..4 |-> IF k \in DOMAIN f THEN FreeList(p, k, f[k]) ELSE Absent] :
        f \in UNION { [S -> {"null", "empty", "short", "full"}] :
                        S \in { T \in SUBSET (1..4) :
                                  Cardinality(T) <= MaxKeysPresent } } }

\* the stores a paginate run is checked against
PaginateStores ==
    { [kind |-> "collection", n |-> n, key |-> k] : n \in 0..MaxItems, k \in 1..4 }
    \cup { [kind |-> "free", n |-> 0, key |-> 1] }

LazyStore == [kind |-> "lazy", n |-> 0, key |-> 1]

-----------------------------------------------------------------------------
(* Cases, custom fields, results *)

\* one entry of a case's custom_fields list
Field(id, value) == [id |-> id, value |-> value]

\* a case object; has_cf is whether the key custom_fields is present. A case
\* always holds its id, so a case object is never an empty (falsy) dict
Case(id, has_cf, cf_list) ==
    [isnull |-> FALSE, id |-> id, has_cf |-> has_cf, custom_fields |-> cf_list]

\* a null / missing "result" in the answer to a single-case GET
NullCase == [isnull |-> TRUE, id |-> 0, has_cf |-> FALSE, custom_fields |-> <<>>]

\* a result object of the results collection
Result(run_id, case_id, status) ==
    [run_id |-> run_id, case_id |-> case_id, status |-> status]

\* dict.get("custom_fields", []), lines 136 and 188
CustomFieldsOf(case) == IF case.has_cf THEN case.custom_fields ELSE <<>>

RECURSIVE ExtractFrom(_, _, _)
\* lines 120-123: the first item whose id equals field_id decides
ExtractFrom(cf_list, field_id, k) ==
    IF k > Len(cf_list) THEN None
    ELSE IF cf_list[k].id = field_id
         THEN StrV(Strip(PyStr(cf_list[k].value)))
         ELSE ExtractFrom(cf_list, field_id, k + 1)

\* lines 120-123 letting the last item whose id equals field_id decide
ExtractLastEntry(cf_list, field_id) ==
    LET m == { k \in 1..Len(cf_list) : cf_list[k].id = field_id }
    IN IF m = {} THEN None
       ELSE StrV(Strip(PyStr(cf_list[CHOOSE k \in m : \A j \in m : j <= k].value)))

extract_custom_field_value(cf_list, field_id) == ExtractFrom(cf_list, field_id, 1)

\* an empty dict
EmptyMapping == [k \in {} |-> 0]

\* mapping[key] = value
Put(mapping, key, value) ==
    [k \in DOMAIN mapping \cup {key} |-> IF k = key THEN value ELSE mapping[k]]

\* lines 137-139: one iteration of the loop over the cases
MapCase(mapping, case) ==
    LET mapping_value ==
            extract_custom_field_value(CustomFieldsOf(case), MAPPING_FIELD_ID)
    IN IF Truthy(mapping_value) THEN Put(mapping, mapping_value.s, case.id)
       ELSE mapping

RECURSIVE MapCases(_, _, _)
\* lines 135-139
MapCases(mapping, cs, k) ==
    IF k > Len(cs) THEN mapping
    ELSE MapCases(MapCase(mapping, cs[k]), cs, k + 1)

\* build_mapping, once get_all_cases has returned cs
build_mapping(cs) == MapCases(EmptyMapping, cs, 1)

\* mapping_a.get(mapping_value), line 194
Lookup(mapping, mapping_value) ==
    IF mapping_value.s \in DOMAIN mapping THEN IntV(mapping[mapping_value.s])
    ELSE None

\* line 174: the results of the run, in the order they were fetched
FilterRun(rs, run) == SelectSeq(rs, LAMBDA r : r.run_id = run)

\* lines 200-204 sending the raw status as it was read
PayloadRawStatus(target_case_id, status_raw, project_b, run_b) ==
    [case_id |-> target_case_id,
     status |-> PyStr(status_raw),
     comment |-> <<"Copied from ", project_b, " run ", run_b>>]

\* lines 200-204; the comment is kept as the pieces of its f-string
Payload(target_case_id, status_raw, project_b, run_b) ==
    [case_id |-> target_case_id,
     status |-> Lower(PyStr(status_raw)),
     comment |-> <<"Copied from ", project_b, " run ", run_b>>]

NoPayload == [case_id |-> 0, status |-> <<>>, comment |-> <<>>]

\* line 177
ZeroSummary == [copied |-> 0, skipped |-> 0, errors |-> 0]

Count(summary_, field) == [summary_ EXCEPT ![field] = @ + 1]

-----------------------------------------------------------------------------
(* convert_status *)

\* the dict of lines 145-150
StatusTable ==
    [k \in { Text(<<"p","a","s","s","e","d">>),
             Text(<<"f","a","i","l","e","d">>),
             Text(<<"s","k","i","p","p","e","d">>),
             Text(<<"b","l","o","c","k","e","d">>) }
     |-> CASE k = Text(<<"p","a","s","s","e","d">>) -> 1
           [] k = Text(<<"f","a","i","l","e","d">>) -> 5
           [] k = Text(<<"s","k","i","p","p","e","d">>) -> 2
           [] k = Text(<<"b","l","o","c","k","e","d">>) -> 3]

\* line 153 without .lower()
convert_status_NoLower(v) ==
    IF v.t = "int" THEN v
    ELSE LET key == PyStr(v)
         IN IF key \in DOMAIN StatusTable THEN IntV(StatusTable[key])
            ELSE IntV(4)

\* lines 151-153; an int is returned as it is, everything else as a code
convert_status(v) ==
    IF v.t = "int" THEN v
    ELSE LET key == Lower(PyStr(v))
         IN IF key \in DOMAIN StatusTable THEN IntV(StatusTable[key])
            ELSE IntV(4)

-----------------------------------------------------------------------------
(* What the remote store may hold and answer *)

SeqsUpTo(S, n) == UNION { [1..k -> S] : k \in 0..n }

\* a blank text: a space and a no-break space
BlankText == <<32, 160>>

\* the text "7" padded with a form feed and a space before it and a no-break
\* space after it
PaddedText == <<12, 32, 55, 160>>

\* values of the mapping custom field: null, empty, blank, padded, plain, int
FieldValues ==
    { None, StrV(<<>>), StrV(BlankText), StrV(PaddedText), StrV(Text(<<"7">>)),
      IntV(8) }

MappingFields == { Field(MAPPING_FIELD_ID, v) : v \in FieldValues }
OtherField == Field(MAPPING_FIELD_ID + 1, StrV(Text(<<"7">>)))

\* custom_fields lists: no key at all, up to one entry, and pairs in which
\* an entry of another field or a second entry of the mapping field occurs
FieldLists ==
    { [has_cf |-> FALSE, list |-> <<>>] }
    \cup { [has_cf |-> TRUE, list |-> l] :
             l \in SeqsUpTo(MappingFields \cup {OtherField}, 1) }
    \cup { [has_cf |-> TRUE, list |-> <<a, b>>] :
             a \in { OtherField, Field(MAPPING_FIELD_ID, StrV(<<>>)),
                     Field(MAPPING_FIELD_ID, StrV(Text(<<"7">>))) },
             b \in { Field(MAPPING_FIELD_ID, StrV(Text(<<"7">>))),
                     Field(MAPPING_FIELD_ID, IntV(8)) } }

\* build_mapping run: the case collections of the project
CaseSeqs ==
    SeqsUpTo({ Case(id, f.has_cf, f.list) : id \in 1..MaxCases, f \in FieldLists },
             MaxCases)

\* copy_results run: project A lists its cases in id order, the ids running
\* from 1 or from 0; a case may hold two entries of the mapping field
FieldListsA ==
    { [has_cf |-> FALSE, list |-> <<>>],
      [has_cf |-> TRUE, list |-> <<Field(MAPPING_FIELD_ID, StrV(Text(<<"7">>)))>>],
      [has_cf |-> TRUE, list |-> <<Field(MAPPING_FIELD_ID, None)>>],
      [has_cf |-> TRUE, list |-> <<Field(MAPPING_FIELD_ID, StrV(<<>>)),
                                   Field(MAPPING_FIELD_ID, StrV(Text(<<"7">>)))>>] }

CaseSeqsA ==
    { [k \in 1..Len(sq[2]) |-> Case(sq[1] + k - 1, sq[2][k].has_cf, sq[2][k].list)] :
        sq \in {0, 1} \X SeqsUpTo(FieldListsA, MaxCasesA) }

\* copy_results run: the results of project B, of run_b and of another run
ResultKinds ==
    { Result(run, cs[1], cs[2]) :
        run \in { Args.run_b, Args.run_a },
        cs \in { <<1, StrV(Text(<<"P","a","s","s","e","d">>))>>, <<2, None>> } }

ResultSeqs == SeqsUpTo(ResultKinds, MaxResults)

\* copy_results run: project B may instead hold full pages of results, all of
\* another run, and nothing after them
FullResultPage == [j \in 1..RequestLimit |-> Result(Args.run_a, 1, None)]

\* copy_results run: the custom_fields of a case of project B
FieldListsB ==
    FieldListsA
    \cup { [has_cf |-> TRUE, list |-> <<OtherField>>],
           [has_cf |-> TRUE, list |-> <<Field(MAPPING_FIELD_ID, StrV(BlankText))>>],
           [has_cf |-> TRUE, list |-> <<Field(MAPPING_FIELD_ID, StrV(Text(<<"7">>))),
                                        Field(MAPPING_FIELD_ID, IntV(8))>>] }

\* answers to GET case/{project}/{case_id}: a failure, a null result, a case
CaseFail == [code |-> 404, result |-> NullCase]
CaseOk(case) == [code |-> 200, result |-> case]

\* a remote whose reads do not change: the cases of project A, the results of
\* project B and, for every case id the results name, the answer to its GET
FixedCaseIds == { r.case_id : r \in ResultKinds }

FixedCaseResponses(case_id) ==
    { CaseFail,
      CaseOk(Case(case_id, FALSE, <<>>)),
      CaseOk(Case(case_id, TRUE, <<Field(MAPPING_FIELD_ID, StrV(Text(<<"7">>)))>>)),
      CaseOk(Case(case_id, TRUE, <<Field(MAPPING_FIELD_ID, None)>>)) }

FixedStores ==
    { [kind |-> "fixed", n |-> 0, key |-> 1,
       casesA |-> cs, results |-> rs, caseB |-> cb] :
        cs \in { c \in CaseSeqsA : Len(c) = 1 },
        rs \in ResultSeqs,
        cb \in { f \in [FixedCaseIds -> UNION { FixedCaseResponses(c) : c \in FixedCaseIds }] :
                   \A c \in FixedCaseIds : f[c] \in FixedCaseResponses(c) } }

\* page number p (1-based) of a list served limit at a time
PageOf(list, p) ==
    LET from == (p - 1) * RequestLimit
        upto == IF Len(list) < p * RequestLimit THEN Len(list) ELSE p * RequestLimit
    IN IF from >= Len(list) THEN <<>> ELSE SubSeq(list, from + 1, upto)

CaseResponses(case_id) ==
    IF store.kind = "fixed" THEN { store.caseB[case_id] }
    ELSE { CaseFail, CaseOk(NullCase) }
         \cup { CaseOk(Case(case_id, f.has_cf, f.list)) : f \in FieldListsB }

\* answers to POST result/{project}/{run_id}
PostCodes == { 200, 201, 500 }

\* answers to a page GET
ServerPages ==
    CASE entry = "paginate" /\ store.kind = "collection" ->
           { PageFail, PageOk(Envelope(store.key, Slice(store.n, page))) }
      [] entry = "paginate" /\ store.kind = "free" ->
           { PageFail } \cup { PageOk(e) : e \in FreeEnvelopes(page) }
      [] entry = "build_mapping" ->
           { PageFail } \cup { PageOk(Envelope(1, cs)) : cs \in CaseSeqs }
      [] entry = "copy_results" /\ store.kind = "lazy" /\ url.ep = "case" ->
           { PageFail } \cup { PageOk(Envelope(1, cs)) : cs \in CaseSeqsA }
      [] entry = "copy_results" /\ store.kind = "lazy" /\ url.ep = "result" ->
           { PageFail }
           \cup (IF page = 1 THEN { PageOk(Envelope(1, rs)) : rs \in ResultSeqs }
                 ELSE { PageOk(Envelope(1, <<>>)) })
           \cup (IF page <= MaxFullPages
                 THEN { PageOk(Envelope(1, FullResultPage)) } ELSE {})
      [] entry = "copy_results" /\ store.kind = "fixed" /\ url.ep = "case" ->
           { PageOk(Envelope(1, PageOf(store.casesA, page))) }
      [] entry = "copy_results" /\ store.kind = "fixed" /\ url.ep = "result" ->
           { PageOk(Envelope(1, PageOf(store.results, page))) }

\* arguments convert_status is called with: every letter-case variant of the
\* four known names, other strings, None and ints
KnownNames ==
    { Text(<<"p","a","s","s","e","d">>), Text(<<"f","a","i","l","e","d">>),
      Text(<<"s","k","i","p","p","e","d">>),
      Text(<<"b","l","o","c","k","e","d">>) }

\* the letter cases of a small ASCII letter: itself, its capital and, for k,
\* the Kelvin sign U+212A, an upper-case letter whose lower case is k
LetterCases(c) ==
    {c} \cup (IF c \in 97..122 THEN {c - 32} ELSE {})
        \cup (IF c = 107 THEN {8490} ELSE {})

RECURSIVE CaseVariants(_)
CaseVariants(w) ==
    IF w = <<>> THEN { <<>> }
    ELSE { <<c>> \o rest : c \in LetterCases(Head(w)),
                           rest \in CaseVariants(Tail(w)) }

\* strings that are none of the names: "PASSED" with E acute for E, "passed"
\* with the long s, capital I with dot above, alpha and a final capital
\* sigma, "failed" followed by a no-break space
OtherStatusTexts ==
    { Text(<<"w","e","i","r","d","-","v","a","l","u","e">>), <<>>,
      Text(<<"p","a","s","s">>), Text(<<"p","a","s","s","e","d"," ">>),
      Text(<<"1">>), Text(<<"N","o","n","e">>),
      <<80, 65, 83, 83, 201, 68>>, <<112, 97, 383, 115, 101, 100>>,
      <<304>>, <<913, 931>>, <<102, 97, 105, 108, 101, 100, 160>> }

StatusInputs ==
    { StrV(cs) : cs \in UNION { CaseVariants(w) : w \in KnownNames } }
    \cup { StrV(cs) : cs \in OtherStatusTexts }
    \cup { None }
    \cup { IntV(n) : n \in -1..7 }

-----------------------------------------------------------------------------
(* paginate and its callers *)

\* paginate(url) is entered: lines 63-64
StartPaginate(u) ==
    /\ url' = u
    /\ page' = 1
    /\ items' = <<>>
    /\ pc' = "paginate"

\* line 179 / 216: the next filtered result, or the summary after the last
LoopPc(k, rs) == IF k > Len(rs) THEN "emit" ELSE "get_case"

\* paginate was called directly: line 84
ReturnToCaller(its) ==
    /\ items' = its
    /\ pc' = "returned"
    /\ UNCHANGED <<url, page, cases, mapping_a, all_results, results_b,
                   summary, i>>

\* build_mapping was called directly: lines 132-141
ReturnToBuildMapping(its) ==
    /\ items' = its
    /\ cases' = its
    /\ mapping_a' = build_mapping(its)
    /\ pc' = "returned"
    /\ UNCHANGED <<url, page, all_results, results_b, summary, i>>

\* line 165 testing for None instead: never true of a dict
MappingIsNone(mapping) == FALSE

\* line 165: not mapping_a
MappingIsEmpty(mapping) == DOMAIN mapping = {}

\* copy_results, the case read of project_a has returned: lines 162-170
ReturnToCopyResultsMapping(its) ==
    /\ cases' = its
    /\ mapping_a' = build_mapping(its)
    /\ IF MappingIsEmpty(build_mapping(its))
       THEN /\ pc' = "done"
            /\ items' = its
            /\ UNCHANGED <<url, page>>
       ELSE StartPaginate(ResultsUrl(Args.project_b))
    /\ UNCHANGED <<all_results, results_b, summary, i>>

\* copy_results, the result read of project_b has returned: lines 170-179
ReturnToCopyResultsResults(its) ==
    /\ items' = its
    /\ all_results' = its
    /\ results_b' = FilterRun(its, Args.run_b)
    /\ summary' = ZeroSummary
    /\ i' = 1
    /\ pc' = LoopPc(1, FilterRun(its, Args.run_b))
    /\ UNCHANGED <<url, page, cases, mapping_a>>

\* line 84, return items, into whichever function called paginate
PaginateReturns(its) ==
    CASE entry = "paginate" -> ReturnToCaller(its)
      [] entry = "build_mapping" -> ReturnToBuildMapping(its)
      [] entry = "copy_results" /\ url.ep = "case" -> ReturnToCopyResultsMapping(its)
      [] entry = "copy_results" /\ url.ep = "result" -> ReturnToCopyResultsResults(its)

\* lines 78-82, a page with entities: extend, then stop on a short page
TakePage(entities) ==
    IF IsLastPage(entities)
    THEN PaginateReturns(items \o entities.list)
    ELSE /\ items' = items \o entities.list
         /\ page' = page + 1
         /\ pc' = "paginate"
         /\ UNCHANGED <<url, cases, mapping_a, all_results, results_b, summary, i>>

\* lines 65-82 with the failed GET caught in the loop: the read ends with
\* the items gathered so far
PageRequestSwallows ==
    /\ pc = "paginate"
    /\ (entry = "paginate" /\ store.kind = "free") => page <= MaxFreePages
    /\ \E r \in ServerPages :
         /\ resp' = r
         /\ gets' = Append(gets, [url |-> url, page |-> page,
                                  ok |-> GetSucceeds(r.code)])
         /\ IF ~GetSucceeds(r.code)
            THEN PaginateReturns(items)
            ELSE IF NoEntities(ExtractEntities(r.result))
                 THEN PaginateReturns(items)
                 ELSE TakePage(ExtractEntities(r.result))
    /\ UNCHANGED <<entry, store, case_b, payload, posts, emitted, s, status_code>>

\* lines 65-82: one turn of the while loop, from the GET of a page to the
\* next GET or to the return; a failed GET raises out of every caller
PageRequest ==
    /\ pc = "paginate"
    /\ (entry = "paginate" /\ store.kind = "free") => page <= MaxFreePages
    /\ \E r \in ServerPages :
         /\ resp' = r
         /\ gets' = Append(gets, [url |-> url, page |-> page,
                                  ok |-> GetSucceeds(r.code)])
         /\ IF ~GetSucceeds(r.code)
            THEN /\ pc' = "raised"
                 /\ UNCHANGED <<url, page, items, cases, mapping_a, all_results,
                                results_b, summary, i>>
            ELSE IF NoEntities(ExtractEntities(r.result))
                 THEN PaginateReturns(items)
                 ELSE TakePage(ExtractEntities(r.result))
    /\ UNCHANGED <<entry, store, case_b, payload, posts, emitted, s, status_code>>

-----------------------------------------------------------------------------
(* copy_results: the loop over the filtered results *)

\* lines 189-192 counting a case without mapping value in errors
ResolveMissingIsError(case, res) ==
    IF case.isnull THEN [verdict |-> "errors", payload |-> NoPayload]
    ELSE LET mapping_value ==
                 extract_custom_field_value(CustomFieldsOf(case), MAPPING_FIELD_ID)
             target_case_id == Lookup(mapping_a, mapping_value)
         IN IF ~Truthy(mapping_value)
            THEN [verdict |-> "errors", payload |-> NoPayload]
            ELSE IF ~Truthy(target_case_id)
            THEN [verdict |-> "skipped", payload |-> NoPayload]
            ELSE [verdict |-> "post",
                  payload |-> Payload(target_case_id.n, res.status,
                                      Args.project_b, Args.run_b)]

\* lines 184-204 skipping a result whose payload an earlier write attempt
\* already delivered
ResolveDedup(case, res) ==
    IF case.isnull THEN [verdict |-> "errors", payload |-> NoPayload]
    ELSE LET mapping_value ==
                 extract_custom_field_value(CustomFieldsOf(case), MAPPING_FIELD_ID)
             target_case_id == Lookup(mapping_a, mapping_value)
         IN IF ~Truthy(mapping_value)
            THEN [verdict |-> "skipped", payload |-> NoPayload]
            ELSE IF ~Truthy(target_case_id)
            THEN [verdict |-> "skipped", payload |-> NoPayload]
            ELSE IF \E j \in 1..Len(posts) :
                      /\ PostSucceeds(posts[j].code)
                      /\ posts[j].payload = Payload(target_case_id.n, res.status,
                                                    Args.project_b, Args.run_b)
            THEN [verdict |-> "skipped", payload |-> NoPayload]
            ELSE [verdict |-> "post",
                  payload |-> Payload(target_case_id.n, res.status,
                                      Args.project_b, Args.run_b)]

\* lines 184-204 for a fetched case: which counter the result goes to, or
\* the payload to post
Resolve(case, res) ==
    IF case.isnull THEN [verdict |-> "errors", payload |-> NoPayload]
    ELSE LET mapping_value ==
                 extract_custom_field_value(CustomFieldsOf(case), MAPPING_FIELD_ID)
             target_case_id == Lookup(mapping_a, mapping_value)
         IN IF ~Truthy(mapping_value)
            THEN [verdict |-> "skipped", payload |-> NoPayload]
            ELSE IF ~Truthy(target_case_id)
            THEN [verdict |-> "skipped", payload |-> NoPayload]
            ELSE [verdict |-> "post",
                  payload |-> Payload(target_case_id.n, res.status,
                                      Args.project_b, Args.run_b)]

\* line 183 when api_get raises: nothing in copy_results catches it
CaseFetchRaises ==
    /\ pc' = "raised"
    /\ UNCHANGED <<case_b, summary, i, payload>>

\* lines 184-204 when get_case returned
CaseFetched(case) ==
    /\ case_b' = case
    /\ IF Resolve(case, results_b[i]).verdict = "post"
       THEN /\ payload' = Resolve(case, results_b[i]).payload
            /\ pc' = "post"
            /\ UNCHANGED <<summary, i>>
       ELSE /\ summary' = Count(summary, Resolve(case, results_b[i]).verdict)
            /\ i' = i + 1
            /\ pc' = LoopPc(i + 1, results_b)
            /\ UNCHANGED payload

\* lines 179-204: one filtered result, from the GET of its case to the
\* counter it is skipped or failed into, or to the payload ready to post
GetCase ==
    /\ pc = "get_case"
    /\ \E r \in CaseResponses(results_b[i].case_id) :
         /\ url' = CaseUrl(Args.project_b, results_b[i].case_id)
         /\ gets' = Append(gets, [url |-> CaseUrl(Args.project_b,
                                                  results_b[i].case_id),
                                  page |-> 0, ok |-> GetSucceeds(r.code)])
         /\ IF GetSucceeds(r.code) THEN CaseFetched(r.result)
            ELSE CaseFetchRaises
    /\ UNCHANGED <<entry, store, page, items, resp, cases, mapping_a,
                   all_results, results_b, posts, emitted, s, status_code>>

\* the number of invocations of copy_results so far: each begins with the
\* GET of page 1 of project_a's cases (line 162)
RunsStarted ==
    Cardinality({ k \in 1..Len(gets) :
                    gets[k].url = CasesUrl(Args.project_a) /\ gets[k].page = 1 })

\* lines 206-212: the counter a write attempt answered with code goes to
PostVerdict(code) == IF PostSucceeds(code) THEN "copied" ELSE "errors"

\* lines 206-214 without the try/except: a failed write raises
PostResultNoCatch ==
    /\ pc = "post"
    /\ \E code \in PostCodes :
         /\ posts' = Append(posts, [url |-> PostUrl(Args.project_a, Args.run_a),
                                    payload |-> payload, code |-> code,
                                    res |-> i, run |-> RunsStarted])
         /\ IF PostSucceeds(code)
            THEN /\ summary' = Count(summary, "copied")
                 /\ i' = i + 1
                 /\ pc' = LoopPc(i + 1, results_b)
            ELSE /\ pc' = "raised"
                 /\ UNCHANGED <<summary, i>>
    /\ url' = PostUrl(Args.project_a, Args.run_a)
    /\ UNCHANGED <<entry, store, page, items, resp, gets, cases, mapping_a,
                   all_results, results_b, case_b, payload, emitted, s,
                   status_code>>

\* lines 206-214: the write attempt of the result in hand
PostResult ==
    /\ pc = "post"
    /\ \E code \in PostCodes :
         /\ posts' = Append(posts, [url |-> PostUrl(Args.project_a, Args.run_a),
                                    payload |-> payload, code |-> code,
                                    res |-> i, run |-> RunsStarted])
         /\ summary' = Count(summary, PostVerdict(code))
    /\ url' = PostUrl(Args.project_a, Args.run_a)
    /\ i' = i + 1
    /\ pc' = LoopPc(i + 1, results_b)
    /\ UNCHANGED <<entry, store, page, items, resp, gets, cases, mapping_a,
                   all_results, results_b, case_b, payload, emitted, s,
                   status_code>>

\* lines 216-221: summary.json is written and the summary logged
EmitSummary ==
    /\ pc = "emit"
    /\ emitted' = Append(emitted, summary)
    /\ pc' = "done"
    /\ UNCHANGED <<entry, store, url, page, items, resp, gets, cases, mapping_a,
                   all_results, results_b, summary, i, case_b, payload, posts,
                   s, status_code>>

\* lines 237-239: the command is invoked again with the same arguments; the
\* new process starts from nothing but the remote
RunAgain ==
    /\ pc \in {"done", "raised"}
    /\ RunsStarted < MaxRuns
    /\ StartPaginate(CasesUrl(Args.project_a))
    /\ resp' = PageOk(NoKeys)
    /\ cases' = <<>>
    /\ mapping_a' = EmptyMapping
    /\ all_results' = <<>>
    /\ results_b' = <<>>
    /\ summary' = ZeroSummary
    /\ i' = 0
    /\ case_b' = NullCase
    /\ payload' = NoPayload
    /\ UNCHANGED <<entry, store, gets, posts, emitted, s, status_code>>

\* a call of convert_status(s)
ConvertStatus ==
    /\ pc = "convert_status"
    /\ status_code' = convert_status(s)
    /\ pc' = "returned"
    /\ UNCHANGED <<entry, store, url, page, items, resp, gets, cases, mapping_a,
                   all_results, results_b, summary, i, case_b, payload, posts,
                   emitted, s>>

-----------------------------------------------------------------------------
(* Specifications: one per function the claims are about *)

\* everything a run starts with, before its first request
Fresh ==
    /\ page = 1
    /\ items = <<>>
    /\ resp = PageOk(NoKeys)
    /\ gets = <<>>
    /\ cases = <<>>
    /\ mapping_a = EmptyMapping
    /\ all_results = <<>>
    /\ results_b = <<>>
    /\ summary = ZeroSummary
    /\ i = 0
    /\ case_b = NullCase
    /\ payload = NoPayload
    /\ posts = <<>>
    /\ emitted = <<>>
    /\ status_code = None

\* copy_results(project_a, run_a, project_b, run_b)
Init ==
    /\ entry = "copy_results"
    /\ store = LazyStore
    /\ url = CasesUrl(Args.project_a)
    /\ pc = "paginate"
    /\ s = None
    /\ Fresh

Next == PageRequest \/ GetCase \/ PostResult \/ EmitSummary

Spec == Init /\ [][Next]_vars

\* paginate(url)
InitPaginate ==
    /\ entry = "paginate"
    /\ store \in PaginateStores
    /\ url = CasesUrl(Args.project_a)
    /\ pc = "paginate"
    /\ s = None
    /\ Fresh

NextPaginate == PageRequest

SpecPaginate == InitPaginate /\ [][NextPaginate]_vars

\* build_mapping(project)
InitMapping ==
    /\ entry = "build_mapping"
    /\ store = LazyStore
    /\ url = CasesUrl(Args.project_a)
    /\ pc = "paginate"
    /\ s = None
    /\ Fresh

NextMapping == PageRequest

SpecMapping == InitMapping /\ [][NextMapping]_vars

\* convert_status(s)
InitStatus ==
    /\ entry = "convert_status"
    /\ store = LazyStore
    /\ url = CasesUrl(Args.project_a)
    /\ pc = "convert_status"
    /\ s \in StatusInputs
    /\ Fresh

NextStatus == ConvertStatus

SpecStatus == InitStatus /\ [][NextStatus]_vars

\* copy_results invoked up to MaxRuns times against a remote whose reads do
\* not change
InitRerun ==
    /\ entry = "copy_results"
    /\ store \in FixedStores
    /\ url = CasesUrl(Args.project_a)
    /\ pc = "paginate"
    /\ s = None
    /\ Fresh

NextRerun == PageRequest \/ GetCase \/ PostResult \/ EmitSummary \/ RunAgain

SpecRerun == InitRerun /\ [][NextRerun]_vars

-----------------------------------------------------------------------------
(* Vocabulary of the properties *)

Last(q) == q[Len(q)]

\* the step is a GET of a single case / a write attempt / a page GET
CaseGetStep == pc = "get_case" /\ Len(gets') = Len(gets) + 1
PostStep == pc = "post" /\ Len(posts') = Len(posts) + 1
PageGetStep == pc = "paginate" /\ Len(gets') = Len(gets) + 1

\* both full-collection reads of a copy_results run have returned and the
\* mapping was not empty: the loop over the filtered results was entered
LoopEntered == entry = "copy_results" /\ i >= 1

RunEnded == pc \in {"done", "raised"}

Counted == summary.copied + summary.skipped + summary.errors

\* results of project B whose run identifier is run_b
NumberOfRun(rs, run) == Cardinality({ k \in 1..Len(rs) : rs[k].run_id = run })

-----------------------------------------------------------------------------
(* C1: when a copy_results run that is not a fatal early exit ends,        *)
(* copied + skipped + errors equals the number of project B results whose  *)
(* run identifier is run_b; on a fatal early exit the sum is 0.            *)
(* Stated as the claim has it; the run that ends in the exception of a     *)
(* single-case GET (C2) refutes it.                                        *)
C1_SumEqualsFiltered ==
    RunEnded =>
        IF LoopEntered THEN Counted = NumberOfRun(all_results, Args.run_b)
        ELSE Counted = 0

\* what does hold: a run that reaches its summary has counted every
\* filtered result once, and a fatal early exit has counted nothing
SumAtSummary ==
    /\ pc \in {"emit", "done"} /\ LoopEntered
         => Counted = NumberOfRun(all_results, Args.run_b)
    /\ ~LoopEntered => Counted = 0

(* C2: when the fetch of the source case of a filtered result fails (a     *)
(* non-success answer to the single-case GET, or a null case), errors goes *)
(* up by one and the run continues with the next filtered result; the      *)
(* failure never leaves copy_results.                                      *)
(* Stated as the claim has it; a non-success answer refutes it.            *)
C2_FetchFailureCounted ==
    [][ (CaseGetStep /\ (~Last(gets').ok \/ case_b'.isnull))
          => /\ summary' = [summary EXCEPT !.errors = @ + 1]
             /\ i' = i + 1
             /\ pc' \in {"get_case", "emit"} ]_vars

\* what does hold: a null case is counted as an error and the run goes on
NullCaseCounted ==
    [][ (CaseGetStep /\ Last(gets').ok /\ case_b'.isnull)
          => /\ summary' = [summary EXCEPT !.errors = @ + 1]
             /\ i' = i + 1
             /\ pc' \in {"get_case", "emit"} ]_vars

(* C3: a failed destination write (non-200/201 answer) puts its result in  *)
(* errors exactly once, is not retried (the write attempts are of strictly *)
(* later results each time), and hands the run to the next filtered result *)
(* or, after the last one, to the summary.                                 *)
C3_WriteFailureIsolated ==
    /\ [][ (PostStep /\ Last(posts').code \notin {200, 201})
             => /\ summary' = [summary EXCEPT !.errors = @ + 1]
                /\ Last(posts').res = i
                /\ i' = i + 1
                /\ pc' = IF i < Len(results_b) THEN "get_case" ELSE "emit" ]_vars
    /\ [](\A j, k \in 1..Len(posts) : j < k => posts[j].res < posts[k].res)

\* a write failed and a later result was copied
C3_Witness ==
    /\ Len(posts) = 2
    /\ posts[1].code = 500
    /\ posts[2].code = 201
    /\ summary.errors = 1
    /\ summary.copied = 1

(* C4: against a store that serves a collection of N items in server order *)
(* in pages of 100, paginate requests pages 1, 2, 3, ... consecutively,    *)
(* returns exactly the N items in server order, and issues                 *)
(* floor(N / 100) + 1 page requests.                                       *)
C4_PaginationComplete ==
    (entry = "paginate" /\ store.kind = "collection" /\ pc = "returned")
      => /\ items = [j \in 1..store.n |-> j]
         /\ Len(gets) = (store.n \div 100) + 1
         /\ \A k \in 1..Len(gets) : gets[k].page = k /\ gets[k].url = url

\* 250 items were read in three requests
C4_Witness ==
    /\ entry = "paginate" /\ store.kind = "collection" /\ store.n = 250
    /\ pc = "returned"
    /\ Len(gets) = 3
    /\ Len(items) = 250

\* the list a page response carries: the one under its first container key
CarriedList(result) ==
    IF \E k \in 1..4 : result[k].present
    THEN LET first == CHOOSE k \in 1..4 :
                        /\ result[k].present
                        /\ \A j \in 1..(k - 1) : ~result[j].present
         IN IF result[first].null THEN <<>> ELSE result[first].list
    ELSE <<>>

(* C5: in paginate, a page response with fewer than 100 items (non-empty   *)
(* ones included) or with no item list ends the read, and no page request  *)
(* follows; a page of exactly 100 items makes the request of the next page *)
(* the next thing paginate does.                                           *)
C5_ShortPageStops ==
    /\ [][ (PageGetStep /\ resp'.code = 200)
             => /\ Len(CarriedList(resp'.result)) < 100 => pc' = "returned"
                /\ Len(CarriedList(resp'.result)) = 100
                     => pc' = "paginate" /\ page' = page + 1 ]_vars
    /\ [][ pc = "returned" => gets' = gets ]_vars

\* a read ended on a short, non-empty page that followed a full one
C5_Witness ==
    /\ entry = "paginate" /\ pc = "returned"
    /\ Len(gets) = 2
    /\ Len(CarriedList(resp.result)) \in 1..99
    /\ Len(items) > 100

-----------------------------------------------------------------------------
(* The mapping value a case carries *)

\* positions of the entries of the mapping field among a case's custom fields
MappingEntries(case) ==
    { k \in 1..Len(CustomFieldsOf(case)) :
        CustomFieldsOf(case)[k].id = MAPPING_FIELD_ID }

\* the mapping field of the case exists (its first entry counts)
HasMappingField(case) == ~case.isnull /\ MappingEntries(case) # {}

FirstMappingValue(case) ==
    CustomFieldsOf(case)[CHOOSE k \in MappingEntries(case) :
                           \A j \in MappingEntries(case) : k <= j].value

\* null, or a string that is empty once trimmed
IsBlank(v) == v.t = "none" \/ (v.t = "str" /\ \A k \in 1..Len(v.s) : v.s[k] \in Whitespace)

\* the case takes part in the mapping: its mapping field exists and its
\* value is neither null nor empty after trimming
Participates(case) == HasMappingField(case) /\ ~IsBlank(FirstMappingValue(case))

\* the external mapping value of a case that takes part
CarriedValue(case) == Strip(PyStr(FirstMappingValue(case)))

\* the last case, in fetched order, that carries value
LastCarrier(cs, value) ==
    CHOOSE k \in 1..Len(cs) :
        /\ Participates(cs[k]) /\ CarriedValue(cs[k]) = value
        /\ \A j \in (k + 1)..Len(cs) :
             ~(Participates(cs[j]) /\ CarriedValue(cs[j]) = value)

(* C6: the table returned by build_mapping maps each external mapping      *)
(* value to the id of the last case in fetched order carrying it, and its  *)
(* key set is exactly the set of non-empty trimmed mapping values carried  *)
(* by the cases.                                                           *)
(* Stated as the claim has it; a case whose mapping value is null (C7)     *)
(* refutes the key set.                                                    *)
C6_LastWriteWins ==
    (entry = "build_mapping" /\ pc = "returned")
      => /\ DOMAIN mapping_a =
              { CarriedValue(cases[k]) :
                  k \in { j \in 1..Len(cases) : Participates(cases[j]) } }
         /\ \A value \in DOMAIN mapping_a :
              mapping_a[value] = cases[LastCarrier(cases, value)].id

\* what does hold: every value carried is a key, and the key of a value
\* carried by some case points at the last case carrying it
LastWriteWinsOnCarried ==
    (entry = "build_mapping" /\ pc = "returned")
      => \A k \in 1..Len(cases) :
           Participates(cases[k])
             => /\ CarriedValue(cases[k]) \in DOMAIN mapping_a
                /\ mapping_a[CarriedValue(cases[k])] =
                     cases[LastCarrier(cases, CarriedValue(cases[k]))].id

\* two cases carrying the same value, the later one in the table
LastWriteWinsReached ==
    /\ entry = "build_mapping" /\ pc = "returned"
    /\ Len(cases) = 2
    /\ Participates(cases[1]) /\ Participates(cases[2])
    /\ CarriedValue(cases[1]) = CarriedValue(cases[2])
    /\ cases[1].id # cases[2].id
    /\ mapping_a[CarriedValue(cases[1])] = cases[2].id

(* C7: a case whose mapping field value is null, empty or whitespace-only  *)
(* adds no entry to the table built by build_mapping (every key is the     *)
(* value of a case that takes part), and a source result whose case has    *)
(* such a value is counted as skipped, not looked up or written.           *)
(* Stated as the claim has it; a null value refutes both halves.           *)
C7_BlankValuesExcluded ==
    /\ [](\A value \in DOMAIN mapping_a :
            \E k \in 1..Len(cases) :
              Participates(cases[k]) /\ CarriedValue(cases[k]) = value)
    /\ [][ (CaseGetStep /\ Last(gets').ok /\ HasMappingField(case_b')
              /\ IsBlank(FirstMappingValue(case_b')))
             => /\ summary' = [summary EXCEPT !.skipped = @ + 1]
                /\ pc' # "post" ]_vars

\* the second half alone
C7_BlankSourceSkipped ==
    [][ (CaseGetStep /\ Last(gets').ok /\ HasMappingField(case_b')
           /\ IsBlank(FirstMappingValue(case_b')))
          => /\ summary' = [summary EXCEPT !.skipped = @ + 1]
             /\ pc' # "post" ]_vars

\* what does hold: an empty or whitespace-only value adds no entry and has
\* its result skipped
EmptyValuesExcluded ==
    /\ [](<<>> \notin DOMAIN mapping_a)
    /\ [][ (CaseGetStep /\ Last(gets').ok /\ HasMappingField(case_b')
              /\ FirstMappingValue(case_b').t = "str"
              /\ IsBlank(FirstMappingValue(case_b')))
             => /\ summary' = [summary EXCEPT !.skipped = @ + 1]
                /\ pc' # "post" ]_vars

(* C8: a filtered result whose source case was fetched but has no custom   *)
(* field entry with the mapping field identifier (also a case with no      *)
(* custom_fields list) adds one to skipped and nothing to errors, causes   *)
(* no write attempt, and hands the run to the next filtered result or,     *)
(* after the last one, to the summary.                                     *)
C8_MissingFieldSkipped ==
    [][ (CaseGetStep /\ Last(gets').ok /\ ~case_b'.isnull
           /\ ~HasMappingField(case_b'))
          => /\ summary' = [summary EXCEPT !.skipped = @ + 1]
             /\ posts' = posts
             /\ i' = i + 1
             /\ pc' = IF i < Len(results_b) THEN "get_case" ELSE "emit" ]_vars

\* a case without custom_fields list was skipped and the next result is up
C8_Witness ==
    /\ pc = "get_case" /\ i = 2
    /\ ~case_b.isnull /\ ~case_b.has_cf
    /\ summary = [copied |-> 0, skipped |-> 1, errors |-> 0]
    /\ posts = <<>>

-----------------------------------------------------------------------------
\* cs spells the name w, whatever the case of its letters
SpellsName(cs, w) ==
    /\ Len(cs) = Len(w)
    /\ \A k \in 1..Len(w) : cs[k] \in LetterCases(w[k])

\* the code the specification gives a status that is not an int
CodeOfName(v) ==
    IF v.t # "str" THEN 4
    ELSE IF SpellsName(v.s, Text(<<"p","a","s","s","e","d">>)) THEN 1
    ELSE IF SpellsName(v.s, Text(<<"f","a","i","l","e","d">>)) THEN 5
    ELSE IF SpellsName(v.s, Text(<<"s","k","i","p","p","e","d">>)) THEN 2
    ELSE IF SpellsName(v.s, Text(<<"b","l","o","c","k","e","d">>)) THEN 3
    ELSE 4

(* C9: convert_status returns a value for every input: an int unchanged;   *)
(* passed, failed, skipped, blocked in any letter case as 1, 5, 2, 3; and  *)
(* every other value, null included, as 4.                                 *)
C9_ConvertStatusTotal ==
    (entry = "convert_status" /\ pc = "returned")
      => IF s.t = "int" THEN status_code = s
         ELSE status_code = [t |-> "int", n |-> CodeOfName(s), s |-> <<>>]

\* translate("PASSED") = 1 was computed
C9_Witness ==
    /\ entry = "convert_status" /\ pc = "returned"
    /\ s = StrV(Text(<<"P","A","S","S","E","D">>))
    /\ status_code = IntV(1)

\* the case read of project_a has returned to copy_results
MappingBuilt ==
    /\ entry = "copy_results"
    /\ ~(pc = "paginate" /\ url = CasesUrl(Args.project_a))
    /\ ~(pc = "raised" /\ url = CasesUrl(Args.project_a))

(* C10: when the mapping table built for project_a is empty, copy_results  *)
(* ends at once with nothing counted: the only requests ever issued are    *)
(* the page reads of project_a's cases, so the results of project_b are    *)
(* not fetched, no source case is fetched, no write is attempted, and no   *)
(* step follows.                                                           *)
C10_EmptyMappingStops ==
    (MappingBuilt /\ DOMAIN mapping_a = {})
      => /\ pc = "done"
         /\ ~ENABLED Next
         /\ \A k \in 1..Len(gets) : gets[k].url = CasesUrl(Args.project_a)
         /\ posts = <<>>
         /\ Counted = 0
         /\ emitted = <<>>

\* project_a has cases, none with a mapping value, and the run is over
C10_Witness ==
    /\ entry = "copy_results" /\ pc = "done"
    /\ cases # <<>>
    /\ DOMAIN mapping_a = {}
    /\ Len(gets) = 1

-----------------------------------------------------------------------------
\* the run ended in the exception of a page GET of a full-collection read
FatalReadError == entry = "copy_results" /\ pc = "raised" /\ url.id = 0

(* C11: a non-success answer to a page request of the case read of         *)
(* project_a or of the result read of project_b aborts the read at that    *)
(* request: the failed GET is the last request of the run (no retry), the  *)
(* items gathered so far are returned to nobody (no mapping, no result     *)
(* list), the error leaves copy_results, and the run ends with no write    *)
(* attempt and no summary.                                                 *)
C11_FatalReadAborts ==
    /\ [][ (PageGetStep /\ entry = "copy_results" /\ resp'.code # 200)
             => /\ pc' = "raised"
                /\ cases' = cases /\ mapping_a' = mapping_a
                /\ all_results' = all_results /\ results_b' = results_b ]_vars
    /\ [](FatalReadError
            => /\ ~ENABLED Next
               /\ ~Last(gets).ok
               /\ \A k \in 1..(Len(gets) - 1) : gets[k].ok
               /\ all_results = <<>> /\ results_b = <<>>
               /\ (url = CasesUrl(Args.project_a)
                     => cases = <<>> /\ DOMAIN mapping_a = {})
               /\ posts = <<>>
               /\ emitted = <<>>
               /\ Counted = 0)

\* the second page of project_b's results failed after a full first page
C11_Witness ==
    /\ FatalReadError
    /\ url = ResultsUrl(Args.project_b)
    /\ page = 2
    /\ Len(items) = 100
    /\ all_results = <<>>
    /\ posts = <<>>

-----------------------------------------------------------------------------
(* C16: a filtered result whose source case's external mapping value is a  *)
(* key of project_a's table proceeds to a write attempt whatever case id   *)
(* the table holds for it; it is skipped at the lookup exactly when the    *)
(* value is not a key.                                                     *)
(* Stated as the claim has it; a table entry holding case id 0 refutes it. *)
C16_KeyDecidesLookup ==
    [][ (CaseGetStep /\ Last(gets').ok /\ Participates(case_b'))
          => IF CarriedValue(case_b') \in DOMAIN mapping_a
             THEN pc' = "post" /\ summary' = summary
             ELSE pc' # "post" /\ summary' = [summary EXCEPT !.skipped = @ + 1]
      ]_vars

\* what does hold: the value of the table entry decides with the key; an
\* entry holding a non-zero id leads to the write attempt
TruthyEntryDecidesLookup ==
    [][ (CaseGetStep /\ Last(gets').ok /\ Participates(case_b'))
          => IF /\ CarriedValue(case_b') \in DOMAIN mapping_a
                /\ mapping_a[CarriedValue(case_b')] # 0
             THEN pc' = "post" /\ summary' = summary
             ELSE pc' # "post" /\ summary' = [summary EXCEPT !.skipped = @ + 1]
      ]_vars

-----------------------------------------------------------------------------
(* Against a remote whose reads do not change *)

\* the filtered result list every run computes from the remote
FilteredB == FilterRun(store.results, Args.run_b)

\* the result's case can be read, carries an external value, and a case of
\* project A carries the same value: it resolves to a destination case
ResolvesToDestination(res) ==
    /\ GetSucceeds(store.caseB[res.case_id].code)
    /\ Participates(store.caseB[res.case_id].result)
    /\ \E k \in 1..Len(store.casesA) :
         /\ Participates(store.casesA[k])
         /\ CarriedValue(store.casesA[k])
              = CarriedValue(store.caseB[res.case_id].result)

\* the write attempts run number run made for the k-th filtered result
PostsOf(run, k) ==
    { j \in 1..Len(posts) : posts[j].run = run /\ posts[j].res = k }

(* C12: every result of run_b whose case resolves to a destination case    *)
(* receives exactly one write attempt into run_a of project_a, every other *)
(* result none; the writes come in the order of the filtered list.         *)
(* Stated as the claim has it; a case fetch that fails ends the run before *)
(* the later results are written (C2), a table entry holding id 0 is       *)
(* skipped (C16), and a null value resolves as the text "None" (C7).       *)
C12_EligibleWrittenOnce ==
    (store.kind = "fixed" /\ RunEnded)
      => /\ \A k \in 1..Len(FilteredB) :
              Cardinality(PostsOf(RunsStarted, k))
                = IF ResolvesToDestination(FilteredB[k]) THEN 1 ELSE 0
         /\ \A j \in 1..Len(posts) :
              /\ posts[j].url = PostUrl(Args.project_a, Args.run_a)
              /\ \A j2 \in (j + 1)..Len(posts) :
                   posts[j2].run = posts[j].run => posts[j].res < posts[j2].res

\* what does hold: a run that reaches its summary has written once each
\* result the code resolves, and no other; and in every run the writes come
\* in the order of the filtered list, never two for one result
WrittenOnceWhenRunCompletes ==
    (store.kind = "fixed" /\ pc = "done" /\ i > Len(results_b) /\ i >= 1)
      => \A k \in 1..Len(FilteredB) :
           Cardinality(PostsOf(RunsStarted, k))
             = IF /\ GetSucceeds(store.caseB[FilteredB[k].case_id].code)
                  /\ Resolve(store.caseB[FilteredB[k].case_id].result,
                             FilteredB[k]).verdict = "post"
               THEN 1 ELSE 0

WritesInFilteredOrder ==
    store.kind = "fixed"
      => \A j \in 1..Len(posts) :
           /\ posts[j].url = PostUrl(Args.project_a, Args.run_a)
           /\ posts[j].res \in 1..Len(FilteredB)
           /\ \A j2 \in (j + 1)..Len(posts) :
                posts[j2].run = posts[j].run => posts[j].res < posts[j2].res

\* the write attempts of run number run, in the order they were made
PostsOfRun(run) == SelectSeq(posts, LAMBDA p : p.run = run)

(* C13: when the command is run again with the same arguments against an   *)
(* unchanged remote, the second run makes a write attempt for every result *)
(* the first run made one for, with the same payload and in the same       *)
(* order: nothing is remembered or deduplicated. When the writes of both   *)
(* runs are answered alike, both runs emit the same summary.               *)
C13_RerunRepeatsWrites ==
    (store.kind = "fixed" /\ RunEnded /\ RunsStarted >= 2)
      => LET now == PostsOfRun(RunsStarted)
             before == PostsOfRun(RunsStarted - 1)
         IN /\ Len(now) = Len(before)
            /\ \A j \in 1..Len(now) :
                 /\ now[j].url = before[j].url
                 /\ now[j].payload = before[j].payload
                 /\ now[j].res = before[j].res
            /\ (\A j \in 1..Len(now) : now[j].code = before[j].code)
                 => /\ Len(emitted) \in {0, RunsStarted}
                    /\ emitted # <<>>
                         => emitted[RunsStarted] = emitted[RunsStarted - 1]

\* the second run has ended having repeated both writes of the first, one
\* delivered and one refused in each
C13_Witness ==
    /\ store.kind = "fixed" /\ pc = "done" /\ RunsStarted = 2
    /\ Len(PostsOfRun(1)) = 2 /\ Len(PostsOfRun(2)) = 2
    /\ PostsOfRun(1)[1].code = 201 /\ PostsOfRun(2)[1].code = 201
    /\ PostsOfRun(1)[2].code = 500 /\ PostsOfRun(2)[2].code = 500
    /\ Len(emitted) = 2
    /\ emitted[2] = [copied |-> 1, skipped |-> 0, errors |-> 1]

-----------------------------------------------------------------------------
\* both reads succeeded and the loop over the filtered results was entered:
\* the run is not fatal
NonFatalRun == entry = "copy_results" /\ store.kind = "lazy" /\ LoopEntered

(* C14: a run whose reads succeeded emits the summary exactly once, after  *)
(* the last case fetch and write attempt, whatever the per-result outcomes *)
(* were, case fetch failures included: when such a run has stopped, one    *)
(* summary has been emitted.                                               *)
(* Stated as the claim has it; a run stopped by a failed case fetch has    *)
(* emitted none (C2).                                                      *)
C14_SummaryEmittedOnce ==
    /\ (NonFatalRun /\ ~ENABLED Next) => Len(emitted) = 1
    /\ NonFatalRun => Len(emitted) <= 1
    /\ (NonFatalRun /\ emitted # <<>>) => ~ENABLED Next

\* what does hold: a run in which every case fetch was answered emits the
\* summary once it stops, and in every run the summary comes at most once,
\* as the last step
SummaryOnceUnlessFetchFails ==
    /\ (NonFatalRun /\ ~ENABLED Next /\ \A k \in 1..Len(gets) : gets[k].ok)
         => Len(emitted) = 1
    /\ NonFatalRun => Len(emitted) <= 1
    /\ (NonFatalRun /\ emitted # <<>>) => ~ENABLED Next

-----------------------------------------------------------------------------
\* a step that finishes the filtered result in hand: its case fetch when no
\* write follows, or its write attempt
ResultFinished ==
    \/ CaseGetStep /\ pc' # "post"
    \/ PostStep

\* exactly one counter goes up by one and the others stay
OneCounterUp ==
    \E f \in {"copied", "skipped", "errors"} : summary' = Count(summary, f)

\* the write attempts the remote refused
WriteFailures ==
    Cardinality({ j \in 1..Len(posts) : ~PostSucceeds(posts[j].code) })

\* a write attempt is made only for the result whose case was fetched, was
\* not null, carries a value and whose value the table resolves
WriteAfterCheckpoints ==
    [][ PostStep
          => /\ Last(gets).ok
             /\ Last(gets).url = CaseUrl(Args.project_b, results_b[i].case_id)
             /\ ~case_b.isnull
             /\ Truthy(extract_custom_field_value(CustomFieldsOf(case_b),
                                                  MAPPING_FIELD_ID))
             /\ Truthy(Lookup(mapping_a,
                              extract_custom_field_value(CustomFieldsOf(case_b),
                                                         MAPPING_FIELD_ID)))
      ]_vars

\* write attempts = copied + write-failure errors, at every point
WritesAccounted ==
    /\ Len(posts) = summary.copied + WriteFailures
    /\ WriteFailures <= summary.errors

\* no counter ever goes down
CountersMonotone ==
    [][ \A f \in {"copied", "skipped", "errors"} : summary'[f] >= summary[f] ]_vars

(* C15: every filtered result passes the checkpoints in order and changes  *)
(* exactly one counter, by one; no write attempt is made for a result that *)
(* failed an earlier checkpoint; at every point the write attempts number  *)
(* copied plus write-failure errors; no counter is decremented or reset.   *)
(* Stated as the claim has it; a result whose case fetch fails changes no  *)
(* counter (C2).                                                           *)
C15_OneCounterPerResult ==
    /\ [][ ResultFinished => OneCounterUp /\ i' = i + 1 ]_vars
    /\ WriteAfterCheckpoints
    /\ [](entry = "copy_results" => WritesAccounted)
    /\ CountersMonotone

\* what does hold: every result whose case fetch is answered changes
\* exactly one counter, and the rest of the claim as stated
OneCounterPerFetchedResult ==
    /\ [][ (ResultFinished /\ Last(gets').ok) => OneCounterUp /\ i' = i + 1 ]_vars
    /\ WriteAfterCheckpoints
    /\ [](entry = "copy_results" => WritesAccounted)
    /\ CountersMonotone

-----------------------------------------------------------------------------
(* C17: every write attempt goes to run_a of project_a and carries, as     *)
(* case id, the table's entry for the external value of the source case;   *)
(* as status, the raw status of the source result turned into text and     *)
(* lower-cased, which is not the numeric code convert_status gives; and a  *)
(* comment naming project_b and run_b.                                     *)
(* The external value of the source case is the text of its first mapping  *)
(* entry, trimmed, as the table's keys are.                                *)
C17_WriteContents ==
    [][ PostStep
          => LET w == Last(posts')
                 raw == results_b[i].status
             IN /\ w.url = [ep |-> "result", project |-> Args.project_a,
                            id |-> Args.run_a]
                /\ HasMappingField(case_b)
                /\ CarriedValue(case_b) \in DOMAIN mapping_a
                /\ w.payload.case_id = mapping_a[CarriedValue(case_b)]
                /\ w.payload.status = Lower(PyStr(raw))
                /\ w.payload.status # PyStr(convert_status(raw))
                /\ w.payload.comment
                     = <<"Copied from ", Args.project_b, " run ", Args.run_b>>
      ]_vars

\* a result read with status "Passed" was written as "passed" to the second
\* case of project A
C17_Witness ==
    /\ entry = "copy_results" /\ posts # <<>>
    /\ results_b[Last(posts).res].status = StrV(Text(<<"P","a","s","s","e","d">>))
    /\ Last(posts).payload.status = Text(<<"p","a","s","s","e","d">>)
    /\ Len(cases) = 2
    /\ Last(posts).payload.case_id = cases[2].id

-----------------------------------------------------------------------------
\* the container keys a page response holds, by their rank in line 70
PresentKeys(result) == { k \in 1..4 : result[k].present }

\* the first of them in the order entities, items, results, cases
FirstPresent(result) ==
    CHOOSE k \in PresentKeys(result) : \A j \in PresentKeys(result) : k <= j

(* C18: paginate takes the items of a page from the first container key    *)
(* present in the response, in the order entities, items, results, cases,  *)
(* also when that key's list is empty or null and a later key holds items: *)
(* the read then ends with nothing taken from the page. A response with    *)
(* none of the keys ends the read the same way, without an error.          *)
C18_FirstPresentKeyWins ==
    [][ (PageGetStep /\ entry = "paginate" /\ resp'.code = 200)
          => IF PresentKeys(resp'.result) = {}
             THEN items' = items /\ pc' = "returned"
             ELSE LET chosen == resp'.result[FirstPresent(resp'.result)]
                  IN /\ items' = items \o chosen.list
                     /\ chosen.list = <<>> => pc' = "returned"
                     /\ store.kind = "free"
                          => \A j \in 1..Len(chosen.list) :
                               items'[Len(items) + j]
                                 = FreeLabel(page, FirstPresent(resp'.result), j)
      ]_vars

\* the only page answered had an empty list under "entities" and items
\* under a later key: the read returned with nothing
C18_Witness ==
    /\ entry = "paginate" /\ store.kind = "free" /\ pc = "returned"
    /\ Len(gets) = 1 /\ Last(gets).ok
    /\ resp.result[1].present /\ ~resp.result[1].null /\ resp.result[1].list = <<>>
    /\ \E k \in 2..4 : resp.result[k].present /\ resp.result[k].list # <<>>
    /\ items = <<>>

\* a response without any container key ended the read after a full page
NoKeyEndsRead ==
    /\ entry = "paginate" /\ store.kind = "free" /\ pc = "returned"
    /\ Len(gets) = 2 /\ Last(gets).ok
    /\ PresentKeys(resp.result) = {}
    /\ Len(items) = 100

-----------------------------------------------------------------------------
\* the text the first mapping entry of the case gives, trimmed; empty when
\* the case has no mapping entry
FirstEntryText(case) ==
    IF HasMappingField(case) THEN CarriedValue(case) ELSE <<>>

\* the case holds a later mapping entry whose text differs from the first's
LaterEntryDiffers(case) ==
    /\ HasMappingField(case)
    /\ \E k \in MappingEntries(case) :
         Strip(PyStr(CustomFieldsOf(case)[k].value)) # CarriedValue(case)

\* the positions of the cases whose first mapping entry gives the text v
FirstEntryCarriers(cs, v) == { k \in 1..Len(cs) : FirstEntryText(cs[k]) = v }

(* C19: of several entries of the mapping field in one case only the first *)
(* counts. The keys of the table are the non-empty texts of the cases'     *)
(* first entries, each pointing at the last case whose first entry gives   *)
(* it; a source case is written or skipped by the text of its first entry  *)
(* alone. Later entries change neither, also when the first is empty and a *)
(* later one is not.                                                       *)
C19_FirstEntryOnly ==
    /\ [](MappingBuilt
            => /\ DOMAIN mapping_a
                    = { FirstEntryText(cases[k]) : k \in 1..Len(cases) } \ { <<>> }
               /\ \A v \in DOMAIN mapping_a :
                    \E k \in FirstEntryCarriers(cases, v) :
                      /\ mapping_a[v] = cases[k].id
                      /\ \A j \in FirstEntryCarriers(cases, v) : j <= k)
    /\ [][ (CaseGetStep /\ Last(gets').ok /\ ~case_b'.isnull)
             => IF /\ FirstEntryText(case_b') \in DOMAIN mapping_a
                   /\ mapping_a[FirstEntryText(case_b')] # 0
                THEN /\ pc' = "post"
                     /\ payload'.case_id = mapping_a[FirstEntryText(case_b')]
                ELSE pc' # "post" /\ summary' = Count(summary, "skipped")
         ]_vars

\* a case of project A and the source case both hold an empty first entry
\* and a later entry "7" that is a key of the table: the case of project A
\* is not the one the table points at, and the source result was skipped
C19_Witness ==
    /\ MappingBuilt
    /\ Text(<<"7">>) \in DOMAIN mapping_a
    /\ \E k \in 1..Len(cases) :
         /\ LaterEntryDiffers(cases[k]) /\ FirstEntryText(cases[k]) = <<>>
         /\ mapping_a[Text(<<"7">>)] # cases[k].id
    /\ LaterEntryDiffers(case_b) /\ FirstEntryText(case_b) = <<>>
    /\ i = 2 /\ summary = [copied |-> 0, skipped |-> 1, errors |-> 0]

====
